---- MODULE Spec2Model ----
(***************************************************************************)
(* Model of the monitoring/evaluation pipeline of monitoring/app.py:       *)
(* the two artifact readers (load_data, load_lower_level_data), the two    *)
(* evaluation clients (run_evaluations, run_lower_level_evaluations), and  *)
(* main(): merge, report writing, lower-level processing, dashboard.       *)
(***************************************************************************)
EXTENDS Integers, Sequences, FiniteSets, TLC

(* ------------------------------ bounds --------------------------------- *)
\* most capsules under `files` of an artifact given to the readers alone
MaxCapsules == 2
\* most capsules under `files` of an artifact given to a pipeline run
MaxRunCapsules == 2
\* most invocations of main() against the same output directory
MaxRuns == 2
\* longest free-form verbosity label
MaxLabelLen == 4

(* ------------------------------ values --------------------------------- *)
\* Python's None, and an exception propagating out of a block
None == [tag |-> "None"]
Raised == [tag |-> "Raised"]

RECURSIVE SeqsUpTo(_, _)
SeqsUpTo(S, n) ==
  IF n = 0 THEN {<<>>}
  ELSE LET shorter == SeqsUpTo(S, n - 1)
       IN shorter \cup {Append(s, x) : s \in {t \in shorter : Len(t) = n - 1}, x \in S}

(* --------------------------- the artifact ------------------------------ *)
\* A capsule as json.load yields it.  A summary is absent, falsy ("" or
\* null) or a non-empty text; metadata is absent, null, {} , a non-empty
\* object, or a non-empty string; a version tag is absent, a string or a
\* number.  kind "other" is an entry of `files` that is no JSON object.
SummaryKinds == {"absent", "empty", "text"}
MetadataKinds == {"absent", "null", "emptyDict", "dict", "string"}
VersionKinds == {"absent", "str", "num"}

Capsule(u, l, m, v) ==
  [kind |-> "object", upperLevelSummary |-> u, lowerLevelSummary |-> l,
   metadata |-> m, version |-> v]

NotACapsule ==
  [kind |-> "other", upperLevelSummary |-> "absent", lowerLevelSummary |-> "absent",
   metadata |-> "absent", version |-> "absent"]

\* capsules given to the readers alone: every summary/metadata combination
ReaderCapsules ==
  {Capsule(u, l, m, "absent") : u \in SummaryKinds, l \in SummaryKinds, m \in MetadataKinds}
    \cup {NotACapsule}

\* capsules given to pipeline runs, one for each way through main(): selected
\* by load_data on its metadata alone; selected by both readers; selected by
\* load_lower_level_data alone; selected by load_data, with a numeric version
RunCapsules ==
  { Capsule("absent", "absent", "dict", "absent"),
    Capsule("text", "text", "absent", "str"),
    Capsule("absent", "text", "absent", "absent"),
    Capsule("text", "absent", "dict", "num") }

\* The artifact file: missing, not JSON, JSON whose top level is no object,
\* an object without `files`, an object whose `files` is no mapping, or an
\* object with a `files` mapping (in document order; the position of a
\* capsule stands for its key, the file path).
Shapes == {"missing", "malformed", "notObject", "noFiles", "filesNotMapping", "ok"}

Doc(shape, files) == [shape |-> shape, files |-> files]

ReaderDocs ==
  {Doc(s, <<>>) : s \in Shapes} \cup {Doc("ok", f) : f \in SeqsUpTo(ReaderCapsules, MaxCapsules)}

RunDocs ==
  {Doc(s, <<>>) : s \in Shapes} \cup {Doc("ok", f) : f \in SeqsUpTo(RunCapsules, MaxRunCapsules)}

\* Python truthiness of capsule.get(<summary>) and capsule.get("metadata")
Truthy(kind) == kind \in {"text", "dict", "string"}

\* metadata.get(...) works on a dict only; capsule.get("metadata", {}) is
\* {} when the key is absent and the stored value (null included) otherwise
MetadataHasGet(m) == m \in {"absent", "emptyDict", "dict"}

(* ----------------------------- load_data ------------------------------- *)
\* a reader that selects on the summary alone
UpperSelectedSummaryOnly(c) == Truthy(c.upperLevelSummary)

UpperSelected(c) == Truthy(c.upperLevelSummary) \/ Truthy(c.metadata)

UpperRecord(i, c) ==
  [id |-> i,
   output |-> IF c.upperLevelSummary = "text" THEN "text" ELSE "",
   has_summary |-> Truthy(c.upperLevelSummary),
   prompt_version |-> IF c.version = "absent" THEN "v1_balanced" ELSE c.version]

UpperColumns == <<"id", "input", "output", "language", "name", "has_summary", "prompt_version">>

\* the records list while the loop runs: raised is set once an exception left it
Records(raised, recs) == [raised |-> raised, recs |-> recs]

\* the loop of load_data over files[1..n]
RECURSIVE UpperRecords(_, _)
UpperRecords(files, n) ==
  IF n = 0 THEN Records(FALSE, <<>>)
  ELSE LET before == UpperRecords(files, n - 1)
           c == files[n]
       IN IF before.raised THEN before
          ELSE IF c.kind # "object" THEN Records(TRUE, before.recs)
          ELSE IF ~UpperSelected(c) THEN before
          ELSE IF ~MetadataHasGet(c.metadata) THEN Records(TRUE, before.recs)
          ELSE Records(FALSE, Append(before.recs, UpperRecord(n, c)))

\* pd.DataFrame(records); an empty list gives a frame without columns
DataFrame(columns, records) ==
  [tag |-> "DataFrame",
   columns |-> IF records = <<>> THEN <<>> ELSE columns,
   rows |-> records]

\* the body of the try block, after the os.path.exists test
LoadDataBody(d) ==
  CASE d.shape = "malformed" -> Raised
    [] d.shape = "notObject" -> Raised
    [] d.shape = "filesNotMapping" -> Raised
    [] d.shape = "noFiles" -> DataFrame(UpperColumns, <<>>)
    [] OTHER ->
         LET r == UpperRecords(d.files, Len(d.files))
         IN IF r.raised THEN Raised ELSE DataFrame(UpperColumns, r.recs)

\* a reader without its except clause
LoadDataNoExcept(d) ==
  IF d.shape = "missing" THEN None ELSE LoadDataBody(d)

load_data(d) ==
  IF d.shape = "missing" THEN None
  ELSE LET r == LoadDataBody(d) IN IF r = Raised THEN None ELSE r

(* ----------------------- load_lower_level_data ------------------------- *)
LowerSelected(c) == Truthy(c.lowerLevelSummary)

LowerRecord(i, c) ==
  [id |-> i,
   output |-> "text",
   prompt_version |-> IF c.version = "absent" THEN "v1_structured" ELSE c.version]

LowerColumns ==
  <<"id", "input", "output", "language", "name", "num_blocks", "structure_json", "prompt_version">>

RECURSIVE LowerRecords(_, _)
LowerRecords(files, n) ==
  IF n = 0 THEN Records(FALSE, <<>>)
  ELSE LET before == LowerRecords(files, n - 1)
           c == files[n]
       IN IF before.raised THEN before
          ELSE IF c.kind # "object" THEN Records(TRUE, before.recs)
          ELSE IF ~LowerSelected(c) THEN before
          ELSE Records(FALSE, Append(before.recs, LowerRecord(n, c)))

LoadLowerBody(d) ==
  CASE d.shape = "malformed" -> Raised
    [] d.shape = "notObject" -> Raised
    [] d.shape = "filesNotMapping" -> Raised
    [] d.shape = "noFiles" -> DataFrame(LowerColumns, <<>>)
    [] OTHER ->
         LET r == LowerRecords(d.files, Len(d.files))
         IN IF r.raised THEN Raised ELSE DataFrame(LowerColumns, r.recs)

load_lower_level_data(d) ==
  IF d.shape = "missing" THEN None
  ELSE LET r == LoadLowerBody(d) IN IF r = Raised THEN None ELSE r

\* a test that forgets df.empty
HasDataNotNone(frame) == frame.tag = "DataFrame"

\* df is not None and not df.empty
HasData(frame) == frame.tag = "DataFrame" /\ frame.rows # <<>>

(* ------------------------- classifier labels --------------------------- *)
\* A label is a string (its characters in order), None, or a float NaN.
Label(chars) == [tag |-> "str", chars |-> chars]
NaNLabel == [tag |-> "NaN"]

Good == Label(<<"G", "o", "o", "d">>)
TooShort == Label(<<"T", "o", "o", " ", "S", "h", "o", "r", "t">>)
TooLong == Label(<<"T", "o", "o", " ", "L", "o", "n", "g">>)
NotParsable == Label(<<"N", "O", "T", "_", "P", "A", "R", "S", "A", "B", "L", "E">>)

\* str(x)
Str(x) ==
  CASE x.tag = "str" -> x.chars
    [] x.tag = "None" -> <<"N", "o", "n", "e">>
    [] OTHER -> <<"n", "a", "n">>

UpperToLower ==
  [c \in {"A", "B", "D", "E", "G", "L", "N", "O", "P", "R", "S", "T"} |->
     CASE c = "A" -> "a" [] c = "B" -> "b" [] c = "D" -> "d" [] c = "E" -> "e"
       [] c = "G" -> "g" [] c = "L" -> "l" [] c = "N" -> "n" [] c = "O" -> "o"
       [] c = "P" -> "p" [] c = "R" -> "r" [] c = "S" -> "s" [] c = "T" -> "t"]

\* str.lower(): every cased character to its lower-case form, others kept
Lower(chars) ==
  [i \in 1..Len(chars) |->
     IF chars[i] \in DOMAIN UpperToLower THEN UpperToLower[chars[i]] ELSE chars[i]]

\* a pass derivation that compares the label as it is
VerbosityIsGoodCaseSensitive(x) == IF Str(x) = <<"g", "o", "o", "d">> THEN 1 ELSE 0

\* lambda x: 1 if str(x).lower() == "good" else 0
VerbosityIsGood(x) == IF Lower(Str(x)) = <<"g", "o", "o", "d">> THEN 1 ELSE 0

\* labels the pass derivation is applied to on its own
LabelAlphabet == {"g", "G", "o", "O", "d", "D"}

Labels ==
  {Label(s) : s \in SeqsUpTo(LabelAlphabet, MaxLabelLen)}
    \cup {Good, TooShort, TooLong, NotParsable, None, NaNLabel}

(* ------------------------------ state ---------------------------------- *)
VARIABLES
  doc,                \* the artifact at args.capsules_path
  env,                \* which of the API-key environment variables are set
  headless,           \* args.headless
  pc,                 \* the stage main() is in
  runs,               \* invocations of main() so far; also the wall clock
  df,                 \* main's df
  eval_results,       \* main's eval_results
  df_lower,           \* main's df_lower
  lower_eval_results, \* main's lower_eval_results
  fs,                 \* the output files under BASE_DIR
  exit_status,        \* how the invocation ended
  session,            \* the dashboard launched by px.launch_app
  printed,            \* what the invocation has reported on stdout
  calls,              \* run_evals batch calls issued by the invocation
  written,            \* the output files the invocation has written
  rd,                 \* a reader applied on its own: its two results
  label,              \* a label the pass derivation is applied to on its own
  verbosity_is_good   \* the derived feature for that label

vars ==
  <<doc, env, headless, pc, runs, df, eval_results, df_lower, lower_eval_results,
    fs, exit_status, session, printed, calls, written, rd, label, verbosity_is_good>>

pipelineVars ==
  <<doc, env, headless, pc, runs, df, eval_results, df_lower, lower_eval_results,
    fs, exit_status, session, printed, calls, written>>

Unset == [tag |-> "Unset"]
NoFile == [exists |-> FALSE, lines |-> <<>>]
File(lines) == [exists |-> TRUE, lines |-> lines]

FileNames ==
  {"evaluation_results.csv", "evaluation_stats.csv", "evaluation_history.csv",
   "evaluation_results_lower.csv", "evaluation_history_lower.csv"}

\* no invocation of main() yet, no output file
NotStarted ==
  /\ env = [GEMINI_API_KEY |-> FALSE, GOOGLE_API_KEY |-> FALSE]
  /\ headless = FALSE
  /\ pc = "idle"
  /\ runs = 0
  /\ df = None
  /\ eval_results = None
  /\ df_lower = None
  /\ lower_eval_results = None
  /\ fs = [f \in FileNames |-> NoFile]
  /\ exit_status = "none"
  /\ session = None
  /\ printed = {}
  /\ calls = [upper |-> 0, lower |-> 0]
  /\ written = {}

(* --------------------- the readers on their own ------------------------ *)
ReaderInit ==
  /\ NotStarted
  /\ doc \in ReaderDocs
  /\ rd = [upper |-> Unset, lower |-> Unset]
  /\ label = None
  /\ verbosity_is_good = -1

ReadUpper ==
  /\ rd.upper = Unset
  /\ rd' = [rd EXCEPT !.upper = load_data(doc)]
  /\ UNCHANGED <<pipelineVars, label, verbosity_is_good>>

ReadLower ==
  /\ rd.lower = Unset
  /\ rd' = [rd EXCEPT !.lower = load_lower_level_data(doc)]
  /\ UNCHANGED <<pipelineVars, label, verbosity_is_good>>

ReaderNext == ReadUpper \/ ReadLower

SpecReader == ReaderInit /\ [][ReaderNext]_vars

(* ----------------- the pass derivation on its own ---------------------- *)
LabelInit ==
  /\ NotStarted
  /\ doc = Doc("missing", <<>>)
  /\ rd = [upper |-> Unset, lower |-> Unset]
  /\ label \in Labels
  /\ verbosity_is_good = -1

DerivePass ==
  /\ verbosity_is_good = -1
  /\ verbosity_is_good' = VerbosityIsGood(label)
  /\ UNCHANGED <<pipelineVars, rd, label>>

LabelNext == DerivePass

SpecLabel == LabelInit /\ [][LabelNext]_vars

(* ----------------------- the external classifier ----------------------- *)
\* run_evals returns one result frame per evaluator, index-aligned with the
\* input frame: a label and an explanation per row.  The answers are drawn
\* from each dimension's sample labels: row i gets sample (i + k), cyclically.
ClaritySamples == <<Label(<<"4">>), NotParsable>>
VerbositySamples == <<Good, TooLong>>
CompletenessSamples == <<Label(<<"5">>), Label(<<"2">>)>>
DetailSamples == <<Label(<<"3">>), None>>
AccuracySamples == <<NotParsable, Label(<<"1">>)>>

Rotations == {0, 1}

ResultFrame(n, samples, k) ==
  [i \in 1..n |->
     [label |-> samples[((i + k) % Len(samples)) + 1], explanation |-> "explanation"]]

UpperAnswers(frame) ==
  {<<ResultFrame(Len(frame.rows), ClaritySamples, k),
     ResultFrame(Len(frame.rows), VerbositySamples, k),
     ResultFrame(Len(frame.rows), CompletenessSamples, k)>> : k \in Rotations}

LowerAnswers(frame) ==
  {<<ResultFrame(Len(frame.rows), DetailSamples, k),
     ResultFrame(Len(frame.rows), AccuracySamples, k)>> : k \in Rotations}

(* ------------------------------ merging -------------------------------- *)
Digits ==
  [c \in {"0", "1", "2", "3", "4", "5", "6", "7", "8", "9"} |->
     CASE c = "0" -> 0 [] c = "1" -> 1 [] c = "2" -> 2 [] c = "3" -> 3 [] c = "4" -> 4
       [] c = "5" -> 5 [] c = "6" -> 6 [] c = "7" -> 7 [] c = "8" -> 8 [] c = "9" -> 9]

RECURSIVE DecimalValue(_, _)
DecimalValue(chars, n) ==
  IF n = 0 THEN 0 ELSE 10 * DecimalValue(chars, n - 1) + Digits[chars[n]]

Float(v) == [tag |-> "float", value |-> v]
NaN == [tag |-> "NaN"]

\* pd.to_numeric(..., errors='coerce') of one label
ToNumeric(x) ==
  IF /\ x.tag = "str"
     /\ Len(x.chars) > 0
     /\ \A i \in 1..Len(x.chars) : x.chars[i] \in DOMAIN Digits
  THEN Float(DecimalValue(x.chars, Len(x.chars)))
  ELSE NaN

\* df.join(other): the columns of other appended, row by row on the index
Join(frame, columns, cells) ==
  [tag |-> "DataFrame",
   columns |-> frame.columns \o columns,
   rows |-> [i \in 1..Len(frame.rows) |-> cells[i] @@ frame.rows[i]]]

\* rename label/explanation, coerce the label, keep <name>_score and <name>_explanation
ScoreCells(res, name) ==
  [i \in 1..Len(res) |->
     (name \o "_score" :> ToNumeric(res[i].label))
       @@ (name \o "_explanation" :> res[i].explanation)]

ScoreColumns(name) == <<name \o "_score", name \o "_explanation">>

VerbosityCells(res) ==
  [i \in 1..Len(res) |->
     [verbosity_label |-> res[i].label,
      verbosity_explanation |-> res[i].explanation,
      verbosity_is_good |-> VerbosityIsGood(res[i].label)]]

VerbosityColumns == <<"verbosity_label", "verbosity_explanation", "verbosity_is_good">>

MergeClarity(frame, results) ==
  IF Len(results) > 0
  THEN Join(frame, ScoreColumns("clarity"), ScoreCells(results[1], "clarity"))
  ELSE frame

MergeVerbosity(frame, results) ==
  IF Len(results) > 1 THEN Join(frame, VerbosityColumns, VerbosityCells(results[2])) ELSE frame

MergeCompleteness(frame, results) ==
  IF Len(results) > 2
  THEN Join(frame, ScoreColumns("completeness"), ScoreCells(results[3], "completeness"))
  ELSE frame

\* a merge that joins completeness before clarity and verbosity
MergeUpperCompletenessFirst(frame, results) ==
  MergeVerbosity(MergeClarity(MergeCompleteness(frame, results), results), results)

MergeUpper(frame, results) ==
  MergeCompleteness(MergeVerbosity(MergeClarity(frame, results), results), results)

MergeDetail(frame, results) ==
  IF Len(results) > 0
  THEN Join(frame, ScoreColumns("detail"), ScoreCells(results[1], "detail"))
  ELSE frame

MergeAccuracy(frame, results) ==
  IF Len(results) > 1
  THEN Join(frame, ScoreColumns("accuracy"), ScoreCells(results[2], "accuracy"))
  ELSE frame

MergeLower(frame, results) == MergeAccuracy(MergeDetail(frame, results), results)

(* --------------------------- report writing ---------------------------- *)
InSeq(x, s) == \E i \in 1..Len(s) : s[i] = x

Present(names, columns) == SelectSeq(names, LAMBDA c : InSeq(c, columns))

HeaderLine(fields) == [kind |-> "header", fields |-> fields]

\* df.to_csv(path, index=False): the header line; the data lines, one per
\* row, are not kept
CsvOf(frame) == File(<<HeaderLine(frame.columns)>>)

\* the stats frame: numeric columns, then categorical columns, those present
StatsOf(frame) ==
  LET features ==
        Present(<<"clarity_score", "completeness_score", "verbosity_is_good">>, frame.columns)
          \o Present(<<"verbosity_label", "language", "name">>, frame.columns)
  IN File(<<HeaderLine(<<"Feature", "Type", "Count", "Mean", "Min", "Max", "StdDev",
                        "Top/Unique">>)>>
            \o [i \in 1..Len(features) |-> [kind |-> "row", id |-> features[i]]])

\* ",".join(df["prompt_version"].unique()) raises on a value that is no string
VersionsJoinRaises(frame) ==
  /\ InSeq("prompt_version", frame.columns)
  /\ \E i \in 1..Len(frame.rows) : frame.rows[i].prompt_version = "num"

\* the keys of history_record, in insertion order
HistoryFields(frame) ==
  <<"timestamp", "num_records">>
    \o (IF InSeq("clarity_score", frame.columns) THEN <<"clarity_mean">> ELSE <<>>)
    \o (IF InSeq("completeness_score", frame.columns) THEN <<"completeness_mean">> ELSE <<>>)
    \o (IF InSeq("verbosity_is_good", frame.columns) THEN <<"verbosity_pass_rate">> ELSE <<>>)
    \o (IF InSeq("prompt_version", frame.columns) THEN <<"prompt_versions">> ELSE <<>>)

LowerHistoryFields(frame) ==
  <<"timestamp", "num_records">>
    \o (IF InSeq("detail_score", frame.columns) THEN <<"detail_mean">> ELSE <<>>)
    \o (IF InSeq("accuracy_score", frame.columns) THEN <<"accuracy_mean">> ELSE <<>>)

\* the one line of pd.DataFrame([history_record]); of its values the
\* timestamp is kept
HistoryRecord(now, frame, fields) ==
  [kind |-> "row", timestamp |-> now, fields |-> fields]

\* a history write that opens the file for writing every time
AppendHistoryTruncating(file, record) ==
  File(<<HeaderLine(record.fields), record>>)

\* to_csv(history_file) when the file does not exist, else
\* to_csv(history_file, mode='a', header=False)
AppendHistory(file, record) ==
  IF ~file.exists
  THEN File(<<HeaderLine(record.fields), record>>)
  ELSE File(file.lines \o <<record>>)

(* ------------------------------- main ---------------------------------- *)
readerVars == <<rd, label, verbosity_is_good>>

Say(messages) == printed' = printed \cup messages

\* a new process: parse_args(), then main(args) up to the call of load_data
Start ==
  /\ pc = "idle"
  /\ runs < MaxRuns
  /\ runs' = runs + 1
  /\ doc' \in RunDocs
  /\ env' \in [GEMINI_API_KEY : BOOLEAN, GOOGLE_API_KEY : BOOLEAN]
  /\ headless' \in BOOLEAN
  /\ pc' = "loading"
  /\ df' = None /\ eval_results' = None
  /\ df_lower' = None /\ lower_eval_results' = None
  /\ exit_status' = "running"
  /\ session' = None
  /\ printed' = {"starting", "loading"}
  /\ calls' = [upper |-> 0, lower |-> 0]
  /\ written' = {}
  /\ UNCHANGED <<fs, readerVars>>

\* df = load_data(capsules_path) and the test of its result
Load ==
  /\ pc = "loading"
  /\ df' = load_data(doc)
  /\ IF df' = Raised
     THEN pc' = "crashed" /\ exit_status' = "traceback" /\ UNCHANGED printed
     ELSE IF HasData(df')
     THEN pc' = "loaded" /\ Say({"loaded"}) /\ UNCHANGED exit_status
     ELSE pc' = "empty" /\ UNCHANGED <<printed, exit_status>>
  /\ UNCHANGED <<doc, env, headless, runs, eval_results, df_lower, lower_eval_results,
                 fs, session, calls, written, readerVars>>

\* the else branch of main: no data
NoData ==
  /\ pc = "empty"
  /\ Say({"no_data"})
  /\ pc' = "stop"
  /\ exit_status' = IF headless THEN "1" ELSE "0"
  /\ UNCHANGED <<doc, env, headless, runs, df, eval_results, df_lower, lower_eval_results,
                 fs, session, calls, written, readerVars>>

\* main calls run_evaluations(df)
EnterEvaluations ==
  /\ pc = "loaded"
  /\ pc' = "evaluating"
  /\ Say({"running_evals"})
  /\ UNCHANGED <<doc, env, headless, runs, df, eval_results, df_lower, lower_eval_results,
                 fs, exit_status, session, calls, written, readerVars>>

\* a key lookup that falls back to GOOGLE_API_KEY
ApiKeySetWithFallback(e) == e.GEMINI_API_KEY \/ e.GOOGLE_API_KEY

\* os.getenv("GEMINI_API_KEY") is set to a non-empty value
ApiKeySet(e) == e.GEMINI_API_KEY

\* a main that goes on to the report without results
AfterEvaluationsAlwaysWrite(results) == IF results # None THEN "merging" ELSE "writing"

\* main's test of eval_results
AfterEvaluations(results) == IF results # None THEN "merging" ELSE "lower_loading"

\* run_evaluations returns None without a key
EvaluationsSkipped ==
  /\ pc = "evaluating"
  /\ ~ApiKeySet(env)
  /\ eval_results' = None
  /\ Say({"key_not_set"})
  /\ pc' = AfterEvaluations(eval_results')
  /\ UNCHANGED <<doc, env, headless, runs, df, df_lower, lower_eval_results,
                 fs, exit_status, session, calls, written, readerVars>>

\* run_evals returns its result frames
EvaluationsComplete ==
  /\ pc = "evaluating"
  /\ ApiKeySet(env)
  /\ calls' = [calls EXCEPT !.upper = @ + 1]
  /\ Say({"evals_complete"})
  /\ eval_results' \in UpperAnswers(df)
  /\ pc' = AfterEvaluations(eval_results')
  /\ UNCHANGED <<doc, env, headless, runs, df, df_lower, lower_eval_results,
                 fs, exit_status, session, written, readerVars>>

\* an except clause that hands back the frames gathered so far
OnEvalExceptionPartial == <<>>

\* what run_evaluations returns when run_evals raises
OnEvalException == None

\* a client that calls run_evals again after it raised
EvaluationsFailedAndRetried ==
  /\ pc = "evaluating"
  /\ ApiKeySet(env)
  /\ calls.upper < 2
  /\ calls' = [calls EXCEPT !.upper = @ + 1]
  /\ Say({"eval_failed"})
  /\ eval_results' = None
  /\ pc' = "evaluating"
  /\ UNCHANGED <<doc, env, headless, runs, df, df_lower, lower_eval_results,
                 fs, exit_status, session, written, readerVars>>

\* run_evals raises
EvaluationsFailed ==
  /\ pc = "evaluating"
  /\ ApiKeySet(env)
  /\ calls' = [calls EXCEPT !.upper = @ + 1]
  /\ Say({"eval_failed"})
  /\ eval_results' = OnEvalException
  /\ pc' = AfterEvaluations(eval_results')
  /\ UNCHANGED <<doc, env, headless, runs, df, df_lower, lower_eval_results,
                 fs, exit_status, session, written, readerVars>>

\* the three joins
Merge ==
  /\ pc = "merging"
  /\ df' = MergeUpper(df, eval_results)
  /\ Say({"merging"})
  /\ pc' = "writing"
  /\ UNCHANGED <<doc, env, headless, runs, eval_results, df_lower, lower_eval_results,
                 fs, exit_status, session, calls, written, readerVars>>

\* raw results, summary stats, history row
Write ==
  /\ pc = "writing"
  /\ IF VersionsJoinRaises(df)
     THEN /\ fs' = [fs EXCEPT !["evaluation_results.csv"] = CsvOf(df),
                              !["evaluation_stats.csv"] = StatsOf(df)]
          /\ Say({"saved_raw", "saved_stats"})
          /\ written' = written \cup {"evaluation_results.csv", "evaluation_stats.csv"}
          /\ pc' = "crashed"
          /\ exit_status' = "traceback"
     ELSE /\ fs' = [fs EXCEPT !["evaluation_results.csv"] = CsvOf(df),
                              !["evaluation_stats.csv"] = StatsOf(df),
                              !["evaluation_history.csv"] =
                                 AppendHistory(@, HistoryRecord(runs, df, HistoryFields(df)))]
          /\ Say({"saved_raw", "saved_stats", "appended_history"})
          /\ written' = written \cup {"evaluation_results.csv", "evaluation_stats.csv",
                                       "evaluation_history.csv"}
          /\ pc' = "lower_loading"
          /\ UNCHANGED exit_status
  /\ UNCHANGED <<doc, env, headless, runs, df, eval_results, df_lower, lower_eval_results,
                 session, calls, readerVars>>

\* the upper schema and dataset, then df_lower = load_lower_level_data(...)
LoadLower ==
  /\ pc = "lower_loading"
  /\ df_lower' = load_lower_level_data(doc)
  /\ IF HasData(df_lower')
     THEN pc' = "lower_loaded" /\ Say({"loading_lower", "loaded_lower"})
     ELSE pc' = "launching" /\ Say({"loading_lower", "no_lower_data"})
  /\ UNCHANGED <<doc, env, headless, runs, df, eval_results, lower_eval_results,
                 fs, exit_status, session, calls, written, readerVars>>

\* main calls run_lower_level_evaluations(df_lower)
EnterLowerEvaluations ==
  /\ pc = "lower_loaded"
  /\ pc' = "lower_evaluating"
  /\ Say({"running_lower_evals"})
  /\ UNCHANGED <<doc, env, headless, runs, df, eval_results, df_lower, lower_eval_results,
                 fs, exit_status, session, calls, written, readerVars>>

AfterLowerEvaluations(results) == IF results # None THEN "lower_merging" ELSE "launching"

LowerEvaluationsSkipped ==
  /\ pc = "lower_evaluating"
  /\ ~ApiKeySet(env)
  /\ lower_eval_results' = None
  /\ Say({"lower_key_not_set"})
  /\ pc' = AfterLowerEvaluations(lower_eval_results')
  /\ UNCHANGED <<doc, env, headless, runs, df, eval_results, df_lower,
                 fs, exit_status, session, calls, written, readerVars>>

LowerEvaluationsComplete ==
  /\ pc = "lower_evaluating"
  /\ ApiKeySet(env)
  /\ calls' = [calls EXCEPT !.lower = @ + 1]
  /\ Say({"lower_evals_complete"})
  /\ lower_eval_results' \in LowerAnswers(df_lower)
  /\ pc' = AfterLowerEvaluations(lower_eval_results')
  /\ UNCHANGED <<doc, env, headless, runs, df, eval_results, df_lower,
                 fs, exit_status, session, written, readerVars>>

LowerEvaluationsFailed ==
  /\ pc = "lower_evaluating"
  /\ ApiKeySet(env)
  /\ calls' = [calls EXCEPT !.lower = @ + 1]
  /\ Say({"lower_eval_failed"})
  /\ lower_eval_results' = None
  /\ pc' = AfterLowerEvaluations(lower_eval_results')
  /\ UNCHANGED <<doc, env, headless, runs, df, eval_results, df_lower,
                 fs, exit_status, session, written, readerVars>>

LowerMerge ==
  /\ pc = "lower_merging"
  /\ df_lower' = MergeLower(df_lower, lower_eval_results)
  /\ Say({"lower_merging"})
  /\ pc' = "lower_writing"
  /\ UNCHANGED <<doc, env, headless, runs, df, eval_results, lower_eval_results,
                 fs, exit_status, session, calls, written, readerVars>>

LowerWrite ==
  /\ pc = "lower_writing"
  /\ fs' = [fs EXCEPT !["evaluation_results_lower.csv"] = CsvOf(df_lower),
                      !["evaluation_history_lower.csv"] =
                         AppendHistory(@, HistoryRecord(runs, df_lower,
                                                        LowerHistoryFields(df_lower)))]
  /\ Say({"saved_lower", "appended_lower_history"})
  /\ written' = written \cup {"evaluation_results_lower.csv", "evaluation_history_lower.csv"}
  /\ pc' = "launching"
  /\ UNCHANGED <<doc, env, headless, runs, df, eval_results, df_lower, lower_eval_results,
                 exit_status, session, calls, readerVars>>

\* ds_lower is set only when df_lower has data
Launch ==
  /\ pc = "launching"
  /\ IF ~headless
     THEN /\ session' = [tag |-> "Session", primary |-> "ds_upper",
                         reference |-> IF HasData(df_lower) THEN "ds_lower" ELSE "none"]
          /\ Say({"phoenix_running"})
          /\ pc' = "serving"
          /\ UNCHANGED exit_status
     ELSE /\ Say({"headless_complete"})
          /\ pc' = "stop"
          /\ exit_status' = "0"
          /\ UNCHANGED session
  /\ UNCHANGED <<doc, env, headless, runs, df, eval_results, df_lower, lower_eval_results,
                 fs, calls, written, readerVars>>

\* input() returns
StopOnInput ==
  /\ pc = "serving"
  /\ pc' = "stop"
  /\ exit_status' = "0"
  /\ UNCHANGED <<doc, env, headless, runs, df, eval_results, df_lower, lower_eval_results,
                 fs, session, printed, calls, written, readerVars>>

\* the process ends: its locals are gone, the output files stay
Exit ==
  /\ pc \in {"stop", "crashed"}
  /\ pc' = "idle"
  /\ doc' = Doc("missing", <<>>)
  /\ env' = [GEMINI_API_KEY |-> FALSE, GOOGLE_API_KEY |-> FALSE]
  /\ headless' = FALSE
  /\ df' = None /\ eval_results' = None
  /\ df_lower' = None /\ lower_eval_results' = None
  /\ exit_status' = "none"
  /\ session' = None
  /\ printed' = {}
  /\ calls' = [upper |-> 0, lower |-> 0]
  /\ written' = {}
  /\ UNCHANGED <<runs, fs, readerVars>>

Init ==
  /\ NotStarted
  /\ doc = Doc("missing", <<>>)
  /\ rd = [upper |-> Unset, lower |-> Unset]
  /\ label = None
  /\ verbosity_is_good = -1

Next ==
  \/ Start \/ Load \/ NoData
  \/ EnterEvaluations \/ EvaluationsSkipped \/ EvaluationsComplete \/ EvaluationsFailed
  \/ Merge \/ Write
  \/ LoadLower
  \/ EnterLowerEvaluations \/ LowerEvaluationsSkipped \/ LowerEvaluationsComplete
  \/ LowerEvaluationsFailed
  \/ LowerMerge \/ LowerWrite
  \/ Launch \/ StopOnInput \/ Exit

Spec == Init /\ [][Next]_vars

\* the steps main() takes by itself: all but the operator starting a run and
\* the operator pressing Enter
RunStep ==
  \/ Load \/ NoData
  \/ EnterEvaluations \/ EvaluationsSkipped \/ EvaluationsComplete \/ EvaluationsFailed
  \/ Merge \/ Write
  \/ LoadLower
  \/ EnterLowerEvaluations \/ LowerEvaluationsSkipped \/ LowerEvaluationsComplete
  \/ LowerEvaluationsFailed
  \/ LowerMerge \/ LowerWrite
  \/ Launch \/ Exit

(* ============================ properties =============================== *)
\* capsules (by position) under `files` whose field `f` is a non-empty text
WithSummary(d, f) == {i \in 1..Len(d.files) : d.files[i][f] = "text"}

\* capsules under `files` whose metadata is non-empty
WithMetadata(d) == {i \in 1..Len(d.files) : d.files[i].metadata \in {"dict", "string"}}

RowIds(frame) == {frame.rows[k].id : k \in 1..Len(frame.rows)}

\* C1 as stated: the rows of either reader are exactly the capsules whose
\* summary field (upperLevelSummary for load_data, lowerLevelSummary for
\* load_lower_level_data) is non-empty, one row each.
C1_RowsAreSummaries ==
  /\ rd.upper.tag = "DataFrame" =>
       /\ Len(rd.upper.rows) = Cardinality(WithSummary(doc, "upperLevelSummary"))
       /\ RowIds(rd.upper) \subseteq WithSummary(doc, "upperLevelSummary")
  /\ rd.lower.tag = "DataFrame" =>
       /\ Len(rd.lower.rows) = Cardinality(WithSummary(doc, "lowerLevelSummary"))
       /\ RowIds(rd.lower) \subseteq WithSummary(doc, "lowerLevelSummary")

\* C1 amended: a table returned by load_lower_level_data has one row per
\* capsule with a non-empty lowerLevelSummary and no other row; a table
\* returned by load_data has one row per capsule with a non-empty
\* upperLevelSummary or non-empty metadata and no other row, and has_summary
\* tells the two apart.
C1_RowsAreSelected ==
  /\ rd.upper.tag = "DataFrame" =>
       /\ Len(rd.upper.rows)
            = Cardinality(WithSummary(doc, "upperLevelSummary") \cup WithMetadata(doc))
       /\ RowIds(rd.upper) = WithSummary(doc, "upperLevelSummary") \cup WithMetadata(doc)
       /\ \A k \in 1..Len(rd.upper.rows) :
            rd.upper.rows[k].has_summary
              <=> rd.upper.rows[k].id \in WithSummary(doc, "upperLevelSummary")
  /\ rd.lower.tag = "DataFrame" =>
       /\ Len(rd.lower.rows) = Cardinality(WithSummary(doc, "lowerLevelSummary"))
       /\ RowIds(rd.lower) = WithSummary(doc, "lowerLevelSummary")

\* both readers returned a table; a capsule without upperLevelSummary is a row
\* of load_data and a capsule without lowerLevelSummary is left out
C1_Witness ==
  /\ rd.upper.tag = "DataFrame" /\ rd.lower.tag = "DataFrame"
  /\ \E k \in 1..Len(rd.upper.rows) : ~rd.upper.rows[k].has_summary
  /\ Len(rd.lower.rows) = 1 /\ Len(doc.files) = 2

\* what a reader has returned, once it has
ReaderResults == {rd.upper, rd.lower} \ {Unset}

\* C6 as stated: on a missing file, malformed JSON or JSON of another shape
\* than an object with a `files` mapping, both readers return null.
C6_NullOnAnyBadArtifact ==
  doc.shape # "ok" => \A r \in ReaderResults : r = None

\* C6 amended: neither reader raises; both return null on a missing file, on
\* malformed JSON, on a top level that is no object, on `files` that is no
\* mapping and on an entry of `files` that is no object; an object that
\* lacks `files` gives an empty table instead of null.
C6_FailsSoftly ==
  \A r \in ReaderResults :
    /\ r.tag \in {"None", "DataFrame"}
    /\ doc.shape \in {"missing", "malformed", "notObject", "filesNotMapping"} => r = None
    /\ (\E i \in 1..Len(doc.files) : doc.files[i].kind # "object") => r = None
    /\ doc.shape = "noFiles" => r.tag = "DataFrame" /\ r.rows = <<>>

\* both readers have returned null for malformed JSON
C6_Witness ==
  /\ doc.shape = "malformed"
  /\ rd.upper = None /\ rd.lower = None

(* ------------------------- claims about main --------------------------- *)
UpperFiles == {"evaluation_results.csv", "evaluation_stats.csv", "evaluation_history.csv"}

Ended == pc \in {"stop", "crashed"}

\* the reader gave main nothing to work on
NoRows(frame) == frame.tag # "DataFrame" \/ frame.rows = <<>>

\* C2: when the reader yields rows and the API key is missing, the run ends
\* without a crash with the raw results CSV written, no evaluation column
\* added and no stats produced.
C2_RawCsvWrittenWithoutKey ==
  (Ended /\ "key_not_set" \in printed) =>
    /\ pc = "stop"
    /\ "evaluation_results.csv" \in written
    /\ "evaluation_stats.csv" \notin written
    /\ df.columns = UpperColumns

\* the data lines of a history file
DataRows(name) == SelectSeq(fs[name].lines, LAMBDA l : l.kind = "row")

IsPrefix(s, t) == Len(s) <= Len(t) /\ SubSeq(t, 1, Len(s)) = s

HistoryFiles == {"evaluation_history.csv", "evaluation_history_lower.csv"}

\* C3: every step leaves each history file alone or appends to it: the first
\* write creates it as a header line and one data line, a later write adds
\* one data line and no header at the end, and what was in the file before
\* stays as it was, in the same order, at the front.
C3_HistoryAppendOnly ==
  [][\A f \in HistoryFiles :
       fs'[f] # fs[f] =>
         IF ~fs[f].exists
         THEN /\ fs'[f].exists
              /\ Len(fs'[f].lines) = 2
              /\ fs'[f].lines[1].kind = "header"
              /\ fs'[f].lines[2].kind = "row"
         ELSE /\ fs'[f].exists
              /\ IsPrefix(fs[f].lines, fs'[f].lines)
              /\ Len(fs'[f].lines) = Len(fs[f].lines) + 1
              /\ fs'[f].lines[Len(fs'[f].lines)].kind = "row"]_vars

\* both history files hold a header and the rows of two runs
C3_Witness ==
  /\ Len(fs["evaluation_history.csv"].lines) = 3
  /\ Len(fs["evaluation_history_lower.csv"].lines) = 3
  /\ fs["evaluation_history.csv"].lines[2].timestamp = 1
  /\ fs["evaluation_history.csv"].lines[3].timestamp = 2

\* C4 as stated: after N invocations the history file holds N data rows,
\* whether or not evaluation ran and data was loaded.
C4_OneRowPerInvocation ==
  pc = "idle" => Len(DataRows("evaluation_history.csv")) = runs

\* the data rows of evaluation_history.csv stamped by the running invocation
RowsOfThisRun ==
  {i \in 1..Len(DataRows("evaluation_history.csv")) :
     DataRows("evaluation_history.csv")[i].timestamp = runs}

\* C4 amended: an invocation appends one row to the history log when its
\* evaluation returned results and every loaded record carries a string
\* prompt version, and no row otherwise: none when evaluation was skipped,
\* when it failed, when no data was loaded; the log never holds more data
\* rows than there were invocations.
C4_OneRowPerEvaluatedRun ==
  /\ Len(DataRows("evaluation_history.csv")) <= runs
  /\ Cardinality(RowsOfThisRun) <= 1
  /\ Ended =>
       (Cardinality(RowsOfThisRun) = 1
          <=> /\ "evals_complete" \in printed
              /\ \A i \in 1..Len(df.rows) : df.rows[i].prompt_version # "num")
  /\ (Ended /\ printed \cap {"key_not_set", "eval_failed", "no_data"} # {}) =>
       RowsOfThisRun = {}

\* the second invocation has ended after a skipped evaluation and has added
\* nothing to the row of the first
C4_Witness ==
  /\ Ended /\ runs = 2
  /\ "key_not_set" \in printed
  /\ Len(DataRows("evaluation_history.csv")) = 1

\* C5: when the reader yields no data (null, or a table without rows), main
\* reports no data, runs no evaluation, writes no file, launches nothing and
\* does not crash; it exits with status 1 in headless mode and returns
\* normally otherwise.
C5_NoDataStops ==
  (pc \notin {"idle", "loading"} /\ NoRows(df)) =>
    /\ pc \in {"empty", "stop"}
    /\ written = {}
    /\ session = None
    /\ calls = [upper |-> 0, lower |-> 0]
    /\ printed \cap {"running_evals", "running_lower_evals", "loading_lower"} = {}
    /\ pc = "stop" =>
         /\ "no_data" \in printed
         /\ exit_status = IF headless THEN "1" ELSE "0"

\* a headless run over an empty `files` mapping has exited with status 1
C5_Witness ==
  /\ pc = "stop" /\ headless
  /\ doc.shape = "ok" /\ doc.files = <<>>
  /\ df.tag = "DataFrame" /\ df.rows = <<>>
  /\ exit_status = "1"

EvaluationReturned == printed \cap {"key_not_set", "evals_complete", "eval_failed"} # {}

\* C7: run_evaluations returns one result frame per grading dimension, each
\* with one entry per row, or None; without the key it returns None before
\* any batch call; when the batch call raises it returns None; after either
\* None main is in the same position: no upper-level file written, the table
\* with the reader's columns only, no merge, on its way to the lower level.
C7_AllOrNothing ==
  EvaluationReturned =>
    /\ \/ eval_results = None
       \/ /\ Len(eval_results) = 3
          /\ \A d \in 1..3 : Len(eval_results[d]) = Len(df.rows)
    /\ "key_not_set" \in printed => eval_results = None /\ calls.upper = 0
    /\ "eval_failed" \in printed => eval_results = None /\ calls.upper = 1
    /\ printed \cap {"key_not_set", "eval_failed"} # {} =>
         /\ written \cap UpperFiles = {}
         /\ df.columns = UpperColumns
         /\ "merging" \notin printed
         /\ pc \notin {"merging", "writing", "crashed"}

\* the batch call has raised and main is about to load the lower level
C7_Witness ==
  /\ "eval_failed" \in printed
  /\ pc = "lower_loading"
  /\ eval_results = None /\ calls.upper = 1

\* the declared stages; the lower-level reader and client are the same
\* components at work a second time
Stage(at) ==
  CASE at = "idle" -> "Idle"
    [] at \in {"loading", "lower_loading"} -> "Loading"
    [] at = "empty" -> "Empty"
    [] at \in {"loaded", "lower_loaded"} -> "Loaded"
    [] at \in {"evaluating", "lower_evaluating"} -> "Evaluating"
    [] at \in {"merging", "lower_merging"} -> "Merging"
    [] at \in {"writing", "lower_writing", "launching"} -> "Writing"
    [] at = "serving" -> "Serving"
    [] at = "stop" -> "Stop"
    [] OTHER -> "Crashed"

DeclaredEdges ==
  { <<"Idle", "Loading">>, <<"Loading", "Empty">>, <<"Empty", "Stop">>,
    <<"Loading", "Loaded">>, <<"Loaded", "Evaluating">>, <<"Evaluating", "Merging">>,
    <<"Merging", "Writing">>, <<"Writing", "Stop">>, <<"Writing", "Serving">>,
    <<"Serving", "Stop">>, <<"Stop", "Idle">> }

\* C8 as stated: a run moves along the declared stage machine only, and
\* enters neither Loading nor Evaluating again once it has written.
C8_DeclaredStageMachine ==
  [][/\ Stage(pc') # Stage(pc) => <<Stage(pc), Stage(pc')>> \in DeclaredEdges
     /\ written # {} => pc' \notin {"lower_loading", "lower_evaluating"}]_vars

\* the stage machine of main
Edges ==
  { <<"idle", "loading">>, <<"loading", "empty">>, <<"empty", "stop">>,
    <<"loading", "loaded">>, <<"loaded", "evaluating">>,
    <<"evaluating", "merging">>, <<"evaluating", "lower_loading">>,
    <<"merging", "writing">>, <<"writing", "lower_loading">>, <<"writing", "crashed">>,
    <<"lower_loading", "lower_loaded">>, <<"lower_loading", "launching">>,
    <<"lower_loaded", "lower_evaluating">>,
    <<"lower_evaluating", "lower_merging">>, <<"lower_evaluating", "launching">>,
    <<"lower_merging", "lower_writing">>, <<"lower_writing", "launching">>,
    <<"launching", "serving">>, <<"launching", "stop">>, <<"serving", "stop">>,
    <<"stop", "idle">>, <<"crashed", "idle">> }

\* C8 amended: a run goes Idle, Loading, then Empty and Stop, or Loaded and
\* Evaluating; Merging and Writing follow only when the evaluation returned
\* results; then the lower level is loaded and, when it has rows, evaluated,
\* merged and written in the same way; then Stop in headless mode, Serving
\* and Stop in interactive mode.  Writing aborts the run on a non-string
\* prompt version.  The upper-level stages are entered once per run.
C8_StageMachine ==
  [][/\ pc' # pc => <<pc, pc'>> \in Edges
     /\ (pc = "evaluating" /\ pc' = "merging") => eval_results' # None
     /\ (pc = "evaluating" /\ pc' = "lower_loading") => eval_results' = None
     /\ (pc = "lower_evaluating" /\ pc' = "lower_merging") => lower_eval_results' # None
     /\ (pc = "lower_evaluating" /\ pc' = "launching") => lower_eval_results' = None
     /\ (pc = "launching" /\ pc' = "stop") => headless
     /\ (pc = "launching" /\ pc' = "serving") => ~headless
     /\ pc' \in {"loading", "loaded", "evaluating", "merging", "writing"} =>
          printed' \cap {"loading_lower", "saved_raw"} = {}]_vars

\* the lower level is being evaluated after the upper-level report was written
C8_Witness ==
  /\ pc = "lower_evaluating"
  /\ "appended_history" \in printed

\* C9 as stated: the evaluation phase is skipped only when neither
\* GEMINI_API_KEY nor GOOGLE_API_KEY is set.
C9_EitherKeyRunsEvaluation ==
  EvaluationReturned =>
    ("key_not_set" \in printed <=> ~env.GEMINI_API_KEY /\ ~env.GOOGLE_API_KEY)

LowerEvaluationReturned ==
  printed \cap {"lower_key_not_set", "lower_evals_complete", "lower_eval_failed"} # {}

\* C9 amended: both evaluation phases read GEMINI_API_KEY alone: each is
\* skipped exactly when GEMINI_API_KEY is not set, whatever GOOGLE_API_KEY
\* is, and issues its batch call otherwise; when the upper-level phase is
\* skipped the loaded table is kept as the reader returned it and the run
\* goes on.
C9_GeminiKeyDecides ==
  /\ EvaluationReturned =>
       /\ "key_not_set" \in printed <=> ~env.GEMINI_API_KEY
       /\ calls.upper = (IF env.GEMINI_API_KEY THEN 1 ELSE 0)
  /\ LowerEvaluationReturned =>
       /\ "lower_key_not_set" \in printed <=> ~env.GEMINI_API_KEY
       /\ calls.lower = (IF env.GEMINI_API_KEY THEN 1 ELSE 0)
  /\ "key_not_set" \in printed =>
       /\ df = load_data(doc) /\ df.rows # <<>>
       /\ pc # "crashed"

\* evaluation was skipped although GOOGLE_API_KEY is set
C9_Witness ==
  /\ "key_not_set" \in printed
  /\ env.GOOGLE_API_KEY /\ ~env.GEMINI_API_KEY
  /\ pc = "lower_loading"

(* -------------------- claims about the pass derivation ------------------ *)
\* "good" in any mix of upper and lower case
IsGoodInAnyCase(x) ==
  /\ x.tag = "str"
  /\ Len(x.chars) = 4
  /\ x.chars[1] \in {"g", "G"}
  /\ x.chars[2] \in {"o", "O"}
  /\ x.chars[3] \in {"o", "O"}
  /\ x.chars[4] \in {"d", "D"}

\* C10: verbosity_is_good is 1 for the labels that spell "good" in any mix
\* of cases and 0 for every other label, "Too Short", "Too Long" and a
\* missing label among them.
C10_PassIsCaseInsensitive ==
  verbosity_is_good # -1 =>
    /\ verbosity_is_good = (IF IsGoodInAnyCase(label) THEN 1 ELSE 0)
    /\ label \in {TooShort, TooLong, NotParsable, None, NaNLabel} => verbosity_is_good = 0

\* "GOOD" has been given the value 1
C10_Witness ==
  /\ label = Label(<<"G", "O", "O", "D">>)
  /\ verbosity_is_good = 1

(* ------------------------ claims about merging -------------------------- *)
NoDuplicates(s) == \A i, j \in 1..Len(s) : s[i] = s[j] => i = j

\* the reader's fields of every row are in `merged` what they are in `base`,
\* row by row in the same order
SameReaderRows(base, merged) ==
  /\ Len(merged.rows) = Len(base.rows)
  /\ \A i \in 1..Len(base.rows) :
       \A f \in DOMAIN base.rows[i] : merged.rows[i][f] = base.rows[i][f]

\* C11: the merged table has the reader's columns first and then the columns
\* of clarity, verbosity and completeness in that order (detail and accuracy
\* for the lower level), no column name twice, as many rows as the reader
\* returned in the reader's order with the reader's values, and every
\* dimension's columns hold that dimension's results whatever was merged
\* after them.
C11_MergeAppendsColumns ==
  /\ "merging" \in printed =>
       /\ df.columns
            = UpperColumns
                \o <<"clarity_score", "clarity_explanation">>
                \o <<"verbosity_label", "verbosity_explanation", "verbosity_is_good">>
                \o <<"completeness_score", "completeness_explanation">>
       /\ NoDuplicates(df.columns)
       /\ SameReaderRows(load_data(doc), df)
       /\ \A i \in 1..Len(df.rows) :
            /\ df.rows[i].clarity_score = ToNumeric(eval_results[1][i].label)
            /\ df.rows[i].verbosity_label = eval_results[2][i].label
            /\ df.rows[i].completeness_score = ToNumeric(eval_results[3][i].label)
  /\ "lower_merging" \in printed =>
       /\ df_lower.columns
            = LowerColumns
                \o <<"detail_score", "detail_explanation">>
                \o <<"accuracy_score", "accuracy_explanation">>
       /\ NoDuplicates(df_lower.columns)
       /\ SameReaderRows(load_lower_level_data(doc), df_lower)
       /\ \A i \in 1..Len(df_lower.rows) :
            /\ df_lower.rows[i].detail_score = ToNumeric(lower_eval_results[1][i].label)
            /\ df_lower.rows[i].accuracy_score = ToNumeric(lower_eval_results[2][i].label)

\* both tables have two rows and both have been merged
C11_Witness ==
  /\ pc = "lower_writing"
  /\ "merging" \in printed
  /\ Len(df.rows) = 2 /\ Len(df_lower.rows) = 2
  /\ df.rows[1].clarity_score # df.rows[2].clarity_score

(* ------------------------ claims about failures ------------------------- *)
CallFailed == printed \cap {"eval_failed", "lower_eval_failed"} # {}

\* where a run ends up: stopped in headless mode, serving otherwise
AtTerminalStage == pc = (IF headless THEN "stop" ELSE "serving")

\* the order in which main() passes through its positions
StageOrder ==
  <<"idle", "loading", "empty", "loaded", "evaluating", "merging", "writing",
    "lower_loading", "lower_loaded", "lower_evaluating", "lower_merging",
    "lower_writing", "launching", "serving", "stop", "crashed">>

Rank(at) == CHOOSE i \in 1..Len(StageOrder) : StageOrder[i] = at

\* C12: a run issues the upper-level batch call at most once and the
\* lower-level batch call at most once, hence none again after it failed; a
\* run in which either call failed does not crash and goes on to Stop in
\* headless mode and to Serving in interactive mode: until it is there it
\* can always take a step, each step takes it further along, and it stops
\* only from the launch in headless mode and from the dashboard otherwise.
C12_NoRetryAndFallback ==
  /\ [](calls.upper <= 1 /\ calls.lower <= 1)
  /\ []("eval_failed" \in printed => calls.upper = 1)
  /\ []("lower_eval_failed" \in printed => calls.lower = 1)
  /\ [](CallFailed => pc # "crashed")
  /\ [](CallFailed /\ pc \notin {"serving", "stop"} => ENABLED RunStep)
  /\ [][CallFailed /\ CallFailed' => Rank(pc') > Rank(pc)]_vars
  /\ [][(CallFailed /\ pc # "stop" /\ pc' = "stop")
          => (headless /\ pc = "launching") \/ (~headless /\ pc = "serving")]_vars

\* both batch calls of an interactive run have failed and the dashboard is up
C12_Witness ==
  /\ {"eval_failed", "lower_eval_failed"} \subseteq printed
  /\ pc = "serving" /\ ~headless
  /\ calls = [upper |-> 1, lower |-> 1]

(* -------------------- claims about the lower level ---------------------- *)
LowerFiles == {"evaluation_results_lower.csv", "evaluation_history_lower.csv"}

\* capsules of the artifact that carry a lower-level summary
LowerCapsules(d) == {i \in 1..Len(d.files) : Truthy(d.files[i].lowerLevelSummary)}

\* the run has touched the lower level: its reader, its evaluation or its files
LowerReached ==
  \/ pc \in {"lower_loaded", "lower_evaluating", "lower_merging", "lower_writing"}
  \/ df_lower.tag = "DataFrame"
  \/ lower_eval_results # None
  \/ calls.lower > 0
  \/ written \cap LowerFiles # {}
  \/ printed \cap {"loading_lower", "loaded_lower", "no_lower_data", "running_lower_evals",
                   "lower_key_not_set", "lower_evals_complete", "lower_eval_failed",
                   "lower_merging", "saved_lower", "appended_lower_history"} # {}

\* C13: the lower-level reader, the lower-level evaluation and the
\* lower-level output files are reached only in runs whose upper-level table
\* is non-null and non-empty; a run whose upper-level table is null or empty
\* ends reported as no data with the lower level untouched, whether or not
\* the artifact has capsules with a lowerLevelSummary.
C13_LowerGatedByUpper ==
  /\ LowerReached => df.tag = "DataFrame" /\ Len(df.rows) > 0
  /\ (pc = "stop" /\ NoRows(df)) =>
       /\ "no_data" \in printed
       /\ ~LowerReached
       /\ written = {}

\* a run over lower-level capsules alone has ended as no data
C13_Witness ==
  /\ pc = "stop"
  /\ doc.shape = "ok" /\ LowerCapsules(doc) # {}
  /\ df.tag = "DataFrame" /\ df.rows = <<>>
  /\ df_lower = None /\ "no_data" \in printed

(* ---------------------- claims about the launch ------------------------- *)
Launched == session # None

\* C14: a run launches the dashboard and waits for the operator exactly when
\* it is not headless and its upper-level table has rows, whatever became of
\* the evaluation; a headless run never launches and never waits; the
\* lower-level dataset is the reference exactly when the lower-level table
\* has rows.
C14_LaunchWhenInteractiveWithData ==
  /\ headless => ~Launched /\ pc # "serving" /\ "phoenix_running" \notin printed
  /\ Launched =>
       /\ session.primary = "ds_upper"
       /\ session.reference = "ds_lower" <=> ~NoRows(df_lower)
  /\ pc = "serving" => Launched
  /\ Ended => (Launched <=> ~headless /\ ~NoRows(df))

====
